---- MODULE Spec2Model ----
(***************************************************************************)
(* A model of pollination-dsl's packaging code:                            *)
(*   src/pollination_dsl/package.py  (_init_repo, _load_plugin,            *)
(*                                    _load_recipe, load, package)         *)
(*   src/pollination_dsl/common.py   (import_module, _get_package_version, *)
(*                                    _get_package_data, _get_meta_data,   *)
(*                                    get_requirement_version,             *)
(*                                    get_docker_image_from_dependency)    *)
(*                                                                         *)
(* Strings that the code splits, joins or rewrites are sequences of their  *)
(* parts: a package name is the sequence of its '-'/'_' separated          *)
(* segments, a version the sequence of its '.' separated components.       *)
(***************************************************************************)
EXTENDS Integers, Sequences, FiniteSets, TLC

VARIABLES
    repo,         \* the directory ~/.queenbee/pollination-dsl on disk
    pc,           \* per process: the statement of package() it is at
    arg,          \* per process: package_name of the running package() call
    modules,      \* per process: module -> its __pollination__ dict in that interpreter
    qb_obj,       \* per process: local qb_obj of package()
    file_object,  \* per process: local file_object / plugin_version of package()
    repo_index,   \* per process: local repo_index of package()
    result,       \* per process: how its last call ended
    pre,          \* per process: the repository as the running / last call found it
    fin,          \* input of the function under test (function specifications)
    fout          \* its result

vars == <<repo, pc, arg, modules, qb_obj, file_object, repo_index, result, pre, fin, fout>>

procVars == <<pc, arg, modules, qb_obj, file_object, repo_index, result, pre>>

\* Two interpreters (two `pip install` runs) share the repository directory.
Procs == {1, 2}

\* The interpreter of the single-invocation use (spec section 5).
SeqProcs == {1}

----------------------------------------------------------------------------
\* Versions: common.py _get_package_version

\* int(z) for the component strings used here (-2 where int() raises ValueError;
\* callers test IsIntLiteral first).
IntOf(z) ==
    CASE z = "0" -> 0
      [] z = "1" -> 1
      [] z = "2" -> 2
      [] z = "3" -> 3
      [] z = "4" -> 4
      [] OTHER -> -2

IsIntLiteral(z) == z \in {"0", "1", "2", "3", "4"}

\* f'{n}' of an integer.
StrOf(n) ==
    CASE n = -1 -> "-1"
      [] n = 0 -> "0"
      [] n = 1 -> "1"
      [] n = 2 -> "2"
      [] n = 3 -> "3"
      [] OTHER -> "4"

\* version.split('.') is the sequence itself; [err, value].
_get_package_version(version) ==
    IF Len(version) <= 3
    THEN [err |-> "", value |-> version]
    ELSE IF ~IsIntLiteral(version[3])
         THEN [err |-> "ValueError", value |-> <<>>]
         ELSE [err |-> "", value |-> <<version[1], version[2], StrOf(IntOf(version[3]) - 1)>>]

----------------------------------------------------------------------------
\* Requirements: common.py get_requirement_version, get_docker_image_from_dependency

\* s.replace(c, '') for every c of drop, on the characters of s.
RECURSIVE Without(_, _)
Without(s, drop) ==
    IF s = <<>> THEN <<>>
    ELSE IF Head(s) \in drop THEN Without(Tail(s), drop)
    ELSE <<Head(s)>> \o Without(Tail(s), drop)

\* dependency_name.replace('_', '-') for the names used here.
Dashed(name) ==
    CASE name = "honeybee_radiance" -> "honeybee-radiance"
      [] OTHER -> name

\* The dict a loop over reqs fills: later entries replace earlier ones.
\* reqs: sequence of [name, version].
RECURSIVE RequirementsDict(_)
RequirementsDict(reqs) ==
    IF reqs = <<>> THEN [n \in {} |-> <<>>]
    ELSE LET last == reqs[Len(reqs)]
             before == RequirementsDict(SubSeq(reqs, 1, Len(reqs) - 1))
         IN [n \in DOMAIN before \cup {last.name} |->
                IF n = last.name THEN last.version ELSE before[n]]

\* Lines 66-69: one requirement of requires.txt, [name, specifier].
FromRequiresTxt(reqs) ==
    [i \in 1..Len(reqs) |->
        [name |-> reqs[i].name, version |-> Without(reqs[i].specifier, {"=", ">", "<"})]]

\* Lines 59-64: one Requires-Dist line, split at ' (' into a name and the rest;
\* the unpacking into (name, version) needs exactly one rest.
FromRequiresDist(dists) ==
    [i \in 1..Len(dists) |->
        [name |-> dists[i].name,
         version |-> Without(dists[i].rest[1], {"=", ">", "<", ")"})]]

\* env: [has_requires_txt, requires_txt, requires_dist] of the installed package.
get_requirement_version(env, dependency) ==
    LET dependency_name == Dashed(dependency)
        unpackable == \A i \in 1..Len(env.requires_dist) : Len(env.requires_dist[i].rest) = 1
        requirements == IF env.has_requires_txt
                        THEN RequirementsDict(FromRequiresTxt(env.requires_txt))
                        ELSE RequirementsDict(FromRequiresDist(env.requires_dist))
    IN IF ~env.has_requires_txt /\ ~unpackable
       THEN [err |-> "ValueError", value |-> <<>>]
       ELSE IF dependency_name \notin DOMAIN requirements
       THEN [err |-> "AssertionError", value |-> <<>>]
       ELSE [err |-> "", value |-> requirements[dependency_name]]

\* [err, image, warned]: the image id is ladybugtools/<dependency>:<tag>.
get_docker_image_from_dependency(env, dependency) ==
    LET got == get_requirement_version(env, dependency)
    IN IF got.err = ""
       THEN [err |-> "", image |-> [name |-> dependency, tag |-> got.value], warned |-> FALSE]
       ELSE IF got.err \in {"FileNotFoundError", "AssertionError"}
       THEN [err |-> "", image |-> [name |-> dependency, tag |-> <<"latest">>],
             warned |-> TRUE]
       ELSE [err |-> got.err, image |-> [name |-> dependency, tag |-> <<>>],
             warned |-> FALSE]

----------------------------------------------------------------------------
\* Installed packages (the Definition Sources the calls below are given)

\* An attribute of a plugin submodule, as dir(module) lists it.
Attr(decorator, cls) == [decorator |-> decorator, cls |-> cls]

\* A DAG object: its queenbee name and its content.
Dag(name, body) == [name |-> name, body |-> body]

Dep(name, tag) == [name |-> name, tag |-> tag]

NoEntry == [dag |-> Dag("", ""), dags |-> <<>>, plugin |-> <<>>, recipe |-> <<>>]

\* __pollination__ as written in a package's __init__.py.
\* entry_point: "missing" (no key), "dag" (a DAG class), "falsy" (a factory
\* whose result is falsy); name = <<>>: no 'name' key; tag = <<>>: no 'tag' key.
Info(config, entry_point, name) ==
    [config |-> config, entry_point |-> entry_point, name |-> name, tag |-> <<>>]

ModuleIds == {"alpha", "pollination.alpha", "beta", "gamma", "delta", "plain"}

Installed ==
    [id \in ModuleIds |->
      CASE id = "alpha" ->
            [module |-> <<"alpha">>, layout |-> "regular", has_info |-> TRUE,
             info |-> Info(TRUE, "missing", <<>>),
             Name |-> <<"alpha">>, Version |-> <<"1", "2", "3">>,
             submodules |-> << <<Attr("function", "Function"), Attr("function", "read")>>,
                               <<Attr("", "os"), Attr("function", "write")>> >>,
             entry |-> NoEntry, packable |-> TRUE]
        [] id = "pollination.alpha" ->
            [module |-> <<"pollination", "alpha">>, layout |-> "namespace",
             has_info |-> TRUE, info |-> Info(TRUE, "missing", <<>>),
             Name |-> <<"pollination", "alpha">>, Version |-> <<"1", "2", "4", "dev1">>,
             submodules |-> << <<Attr("function", "Function"), Attr("function", "read")>> >>,
             entry |-> NoEntry, packable |-> TRUE]
        [] id = "beta" ->
            [module |-> <<"beta">>, layout |-> "regular", has_info |-> TRUE,
             info |-> Info(FALSE, "dag", <<>>),
             Name |-> <<"beta">>, Version |-> <<"0", "1", "0">>,
             submodules |-> <<>>,
             entry |-> [dag |-> Dag("daylight", "daylight"),
                        dags |-> <<Dag("post-process", "post-process")>>,
                        plugin |-> <<Dep(<<"alpha">>, <<"1", "2", "3">>)>>,
                        recipe |-> <<>>],
             packable |-> TRUE]
        [] id = "gamma" ->
            [module |-> <<"gamma">>, layout |-> "regular", has_info |-> TRUE,
             info |-> Info(FALSE, "missing", <<"gamma">>),
             Name |-> <<"gamma">>, Version |-> <<"0", "0", "1">>,
             submodules |-> <<>>, entry |-> NoEntry, packable |-> TRUE]
        [] id = "delta" ->
            [module |-> <<"delta">>, layout |-> "regular", has_info |-> TRUE,
             info |-> Info(TRUE, "missing", <<>>),
             Name |-> <<"delta">>, Version |-> <<"0", "1", "0">>,
             submodules |-> << <<Attr("function", "run")>> >>,
             entry |-> NoEntry, packable |-> FALSE]
        [] OTHER ->
            [module |-> <<"plain">>, layout |-> "regular", has_info |-> FALSE,
             info |-> Info(FALSE, "missing", <<>>),
             Name |-> <<"plain">>, Version |-> <<"1", "0", "0">>,
             submodules |-> <<>>, entry |-> NoEntry, packable |-> TRUE]]

\* The package names package() is called with ("ghost" is not installed).
PackageNames ==
    {<<"alpha">>, <<"pollination", "alpha">>, <<"beta">>, <<"gamma">>,
     <<"delta">>, <<"plain">>, <<"ghost">>}

\* import_module: the module named package_name with '-' replaced by '_', else,
\* for a name of several segments, the submodule <rest> of namespace <first>.
\* "" stands for ModuleNotFoundError.
import_module(name) ==
    LET regular == {id \in ModuleIds :
                      Installed[id].layout = "regular" /\ Installed[id].module = name}
        spaced == {id \in ModuleIds :
                      Installed[id].layout = "namespace" /\ Installed[id].module = name}
    IN IF regular # {} THEN CHOOSE id \in regular : TRUE
       ELSE IF Len(name) = 1 THEN ""
       ELSE IF spaced # {} THEN CHOOSE id \in spaced : TRUE
       ELSE ""

----------------------------------------------------------------------------
\* Metadata: common.py _get_package_data, _get_meta_data

\* Name.replace('pollination-', '') on the '-' separated segments.
RECURSIVE RemovePollinationPrefix(_)
RemovePollinationPrefix(segs) ==
    IF Len(segs) <= 1 THEN segs
    ELSE IF Head(segs) = "pollination" THEN RemovePollinationPrefix(Tail(segs))
    ELSE <<Head(segs)>> \o RemovePollinationPrefix(Tail(segs))

\* The 'name' and 'tag' entries of _get_package_data's dict.
_get_package_data(m) ==
    LET v == _get_package_version(m.Version)
    IN [err |-> v.err, name |-> RemovePollinationPrefix(m.Name), tag |-> v.value]

MetaData(name, tag) == [name |-> name, tag |-> tag]

\* Pops the type's key from the module's __pollination__, copies the package data
\* into it ('name' only when absent) and parses it: [err, qb_info, metadata].
_get_meta_data(m, qb_info, package_type) ==
    LET data == _get_package_data(m)
        popped == IF package_type = "plugin"
                  THEN [qb_info EXCEPT !.config = FALSE]
                  ELSE [qb_info EXCEPT !.entry_point = "missing"]
        filled == [popped EXCEPT !.name = IF popped.name # <<>> THEN popped.name ELSE data.name,
                                 !.tag = data.tag]
    IN IF data.err # ""
       THEN [err |-> data.err, qb_info |-> qb_info, metadata |-> MetaData(<<>>, <<>>)]
       ELSE [err |-> "", qb_info |-> filled, metadata |-> MetaData(filled.name, filled.tag)]

----------------------------------------------------------------------------
\* The repository directory: package.py _init_repo and the queenbee calls on it

\* An artifact file: <store>/<name>-<tag>.tgz.
Key(kind, name, tag) == [kind |-> kind, name |-> name, tag |-> tag]

\* Before the first _init_repo() of the host: nothing on disk.
NoRepo ==
    [exists |-> FALSE, stores |-> {}, files |-> [k \in {} |-> 0],
     has_index |-> FALSE, index |-> {}]

\* RepositoryIndex.from_folder: one entry per file found in plugins/ and recipes/,
\* holding the file's place and the digest of its bytes.
from_folder(r) ==
    {[kind |-> k.kind, name |-> k.name, tag |-> k.tag, digest |-> r.files[k]] :
        k \in DOMAIN r.files}

\* _init_repo() without the index_file.exists() test: the index is always rebuilt.
InitRepoRewritesIndex(r) ==
    LET made == [r EXCEPT !.exists = TRUE, !.stores = {"plugins", "recipes"}]
    IN [made EXCEPT !.has_index = TRUE, !.index = from_folder(made)]

\* The repository after _init_repo() (the path it returns is always the same).
_init_repo(r) ==
    LET made == [r EXCEPT !.exists = TRUE, !.stores = {"plugins", "recipes"}]
    IN IF ~made.has_index
       THEN [made EXCEPT !.has_index = TRUE, !.index = from_folder(made)]
       ELSE made

\* repo.as_uri()
RepoURI == "file:///home/.queenbee/pollination-dsl"

----------------------------------------------------------------------------
\* Definitions: package.py _load_plugin, _load_recipe, load

NoObj ==
    [type |-> "none", metadata |-> MetaData(<<>>, <<>>), functions |-> <<>>,
     dependencies |-> <<>>, flow |-> <<>>]

\* Plugin(config=, metadata=, functions=) as line 109 calls it.
Plugin(metadata, functions) ==
    [type |-> "plugin", metadata |-> metadata, functions |-> functions,
     dependencies |-> <<>>, flow |-> <<>>]

\* Recipe(metadata=, dependencies=, flow=) as line 158 calls it.
Recipe(metadata, dependencies, flow) ==
    [type |-> "recipe", metadata |-> metadata, functions |-> <<>>,
     dependencies |-> dependencies, flow |-> flow]

Dependency(kind, name, tag, source) ==
    [kind |-> kind, name |-> name, tag |-> tag, source |-> source]

\* The inner loop of _load_plugin over dir(module): the names of the function
\* templates among attrs, the Function base class skipped.
RECURSIVE FunctionsOf(_)
FunctionsOf(attrs) ==
    IF attrs = <<>> THEN <<>>
    ELSE LET a == Head(attrs)
         IN IF a.decorator = "function" /\ a.cls # "Function"
            THEN <<a.cls>> \o FunctionsOf(Tail(attrs))
            ELSE FunctionsOf(Tail(attrs))

\* The outer loop of _load_plugin over pkgutil.iter_modules.
RECURSIVE CollectFunctions(_)
CollectFunctions(submodules) ==
    IF submodules = <<>> THEN <<>>
    ELSE FunctionsOf(Head(submodules)) \o CollectFunctions(Tail(submodules))

\* [err, at, obj, qb_info, repo]: at is the line of package.py that raised.
Loaded(err, at, obj, qb_info, r) ==
    [err |-> err, at |-> at, obj |-> obj, qb_info |-> qb_info, repo |-> r]

_load_plugin(m, qb_info, r) ==
    LET meta == _get_meta_data(m, qb_info, "plugin")
    IN IF meta.err # ""
       THEN Loaded(meta.err, 94, NoObj, meta.qb_info, r)
       ELSE Loaded("", 0, Plugin(meta.metadata, CollectFunctions(m.submodules)),
                   meta.qb_info, r)

\* The Dependency list of lines 145-156 for one kind.
RECURSIVE Dependencies(_, _, _)
Dependencies(kind, deps, source) ==
    IF deps = <<>> THEN <<>>
    ELSE <<Dependency(kind, Head(deps).name, Head(deps).tag, source)>>
         \o Dependencies(kind, Tail(deps), source)

\* Lines 139-141: the entry DAG renamed, then the collected DAGs.
Flow(entry) == <<[entry.dag EXCEPT !.name = "main"]>> \o entry.dags

\* The dependency list concatenated the other way round: recipes + plugins.
RecipeDependenciesRecipesFirst(entry, source) ==
    Dependencies("recipe", entry.recipe, source) \o Dependencies("plugin", entry.plugin, source)

\* Lines 145-158: plugins + recipes.
RecipeDependencies(entry, source) ==
    Dependencies("plugin", entry.plugin, source) \o Dependencies("recipe", entry.recipe, source)

_load_recipe(m, qb_info, r) ==
    IF qb_info.entry_point = "missing"
    THEN Loaded("TypeError", 129, NoObj, qb_info, r)
    ELSE IF qb_info.entry_point = "falsy"
    THEN Loaded("AssertionError", 130, NoObj, qb_info, r)
    ELSE LET meta == _get_meta_data(m, qb_info, "recipe")
         IN IF meta.err # ""
            THEN Loaded(meta.err, 133, NoObj, meta.qb_info, r)
            ELSE Loaded("", 0,
                        Recipe(meta.metadata, RecipeDependencies(m.entry, RepoURI),
                               Flow(m.entry)),
                        meta.qb_info, _init_repo(r))

\* load(package_name, baked=False) in an interpreter whose modules hold mods.
load(package_name, mods, r) ==
    LET id == import_module(package_name)
    IN IF id = ""
       THEN [err |-> "ModuleNotFoundError", at |-> 174, obj |-> NoObj, mods |-> mods, repo |-> r]
       ELSE IF ~Installed[id].has_info
       THEN [err |-> "AssertionError", at |-> 176, obj |-> NoObj, mods |-> mods, repo |-> r]
       ELSE LET got == IF mods[id].config
                       THEN _load_plugin(Installed[id], mods[id], r)
                       ELSE _load_recipe(Installed[id], mods[id], r)
            IN [err |-> got.err, at |-> got.at, obj |-> got.obj,
                mods |-> [mods EXCEPT ![id] = got.qb_info], repo |-> got.repo]

\* PackageVersion.package_resource(qb_obj, readme=): the artifact's file name and
\* bytes, or a failure to serialize.
package_resource(obj, packable) ==
    IF ~packable
    THEN [err |-> "Exception", url |-> MetaData(<<>>, <<>>), bytes |-> NoObj]
    ELSE [err |-> "", url |-> MetaData(obj.metadata.name, obj.metadata.tag), bytes |-> obj]

----------------------------------------------------------------------------
\* package.py package(), statement by statement

NoFile == [err |-> "", url |-> MetaData(<<>>, <<>>), bytes |-> NoObj]

Outcome(op, status, err, at) == [op |-> op, status |-> status, err |-> err, at |-> at]

\* A fresh interpreter: every module as its __init__.py defines it.
FreshModules == [id \in ModuleIds |-> Installed[id].info]

\* A host on which nothing has run yet.
FreshHost ==
    /\ repo = NoRepo
    /\ pc = [p \in Procs |-> "idle"]
    /\ arg = [p \in Procs |-> <<>>]
    /\ modules = [p \in Procs |-> FreshModules]
    /\ qb_obj = [p \in Procs |-> NoObj]
    /\ file_object = [p \in Procs |-> NoFile]
    /\ repo_index = [p \in Procs |-> {}]
    /\ result = [p \in Procs |-> Outcome("none", "", "", 0)]
    /\ pre = [p \in Procs |-> NoRepo]

Init ==
    /\ FreshHost
    /\ fin = [kind |-> "none"]
    /\ fout = [kind |-> "none"]

\* The locals of package() are gone when it returns or raises.
Return(p, outcome) ==
    /\ pc' = [pc EXCEPT ![p] = "idle"]
    /\ qb_obj' = [qb_obj EXCEPT ![p] = NoObj]
    /\ file_object' = [file_object EXCEPT ![p] = NoFile]
    /\ repo_index' = [repo_index EXCEPT ![p] = {}]
    /\ result' = [result EXCEPT ![p] = outcome]

\* A direct call of _init_repo().
CallInitRepo(p) ==
    /\ pc[p] = "idle"
    /\ repo' = _init_repo(repo)
    /\ pre' = [pre EXCEPT ![p] = repo]
    /\ result' = [result EXCEPT ![p] = Outcome("_init_repo", "ok", "", 0)]
    /\ UNCHANGED <<pc, arg, modules, qb_obj, file_object, repo_index, fin, fout>>

\* package(package_name) is called: line 195, repository_path = _init_repo().
CallPackage(p, package_name) ==
    /\ pc[p] = "idle"
    /\ repo' = _init_repo(repo)
    /\ pre' = [pre EXCEPT ![p] = repo]
    /\ arg' = [arg EXCEPT ![p] = package_name]
    /\ pc' = [pc EXCEPT ![p] = "load"]
    /\ result' = [result EXCEPT ![p] = Outcome("package", "running", "", 0)]
    /\ UNCHANGED <<modules, qb_obj, file_object, repo_index, fin, fout>>

\* Lines 197-204: qb_obj = load(package_name, baked=False).
Load(p) ==
    /\ pc[p] = "load"
    /\ LET got == load(arg[p], modules[p], repo)
       IN /\ repo' = got.repo
          /\ modules' = [modules EXCEPT ![p] = got.mods]
          /\ IF got.err # ""
             THEN Return(p, Outcome("package", "load failed", got.err, got.at))
             ELSE /\ qb_obj' = [qb_obj EXCEPT ![p] = got.obj]
                  /\ pc' = [pc EXCEPT ![p] = "pack"]
                  /\ UNCHANGED <<file_object, repo_index, result>>
    /\ UNCHANGED <<arg, pre, fin, fout>>

\* package() opening the artifact file for writing before it serializes: a failed
\* serialization leaves an empty file behind.
PackOpensFileFirst(p) ==
    /\ pc[p] = "pack"
    /\ LET got == package_resource(qb_obj[p], Installed[import_module(arg[p])].packable)
           path == Key(qb_obj[p].type, qb_obj[p].metadata.name, qb_obj[p].metadata.tag)
       IN IF got.err # ""
          THEN /\ repo' = [repo EXCEPT !.files =
                             [k \in DOMAIN repo.files \cup {path} |-> NoObj]]
               /\ Return(p, Outcome("package", "packaging failed", "ValueError", 212))
          ELSE /\ file_object' = [file_object EXCEPT ![p] = got]
               /\ pc' = [pc EXCEPT ![p] = "write"]
               /\ UNCHANGED <<repo, qb_obj, repo_index, result>>
    /\ UNCHANGED <<arg, modules, pre, fin, fout>>

\* Lines 207-212: PackageVersion.package_resource, any failure raised as ValueError.
Pack(p) ==
    /\ pc[p] = "pack"
    /\ LET got == package_resource(qb_obj[p], Installed[import_module(arg[p])].packable)
       IN IF got.err # ""
          THEN Return(p, Outcome("package", "packaging failed", "ValueError", 212))
          ELSE /\ file_object' = [file_object EXCEPT ![p] = got]
               /\ pc' = [pc EXCEPT ![p] = "write"]
               /\ UNCHANGED <<qb_obj, repo_index, result>>
    /\ UNCHANGED <<repo, arg, modules, pre, fin, fout>>

\* The file line 214 names: <qb_type>s/<url>.
FilePath(p) == Key(qb_obj[p].type, file_object[p].url.name, file_object[p].url.tag)

\* Writing the artifact into freshly recreated stores: the other files are lost.
WriteBytesRecreatesStore(files, path, bytes) ==
    [k \in {path} |-> bytes]

\* The stores after line 216, file_path.write_bytes(...).
write_bytes(files, path, bytes) ==
    [k \in DOMAIN files \cup {path} |-> IF k = path THEN bytes ELSE files[k]]

\* Lines 214-216.
Write(p) ==
    /\ pc[p] = "write"
    /\ repo' = [repo EXCEPT !.files = write_bytes(repo.files, FilePath(p), file_object[p].bytes)]
    /\ pc' = [pc EXCEPT ![p] = "index"]
    /\ UNCHANGED <<arg, modules, qb_obj, file_object, repo_index, result, pre, fin, fout>>

\* The index patched with the new artifact's entry instead of rebuilt from the stores.
RescanPatchesIndex(p) ==
    /\ pc[p] = "index"
    /\ repo_index' = [repo_index EXCEPT ![p] =
          repo.index \cup {[kind |-> FilePath(p).kind, name |-> FilePath(p).name,
                            tag |-> FilePath(p).tag, digest |-> file_object[p].bytes]}]
    /\ pc' = [pc EXCEPT ![p] = "save"]
    /\ UNCHANGED <<repo, arg, modules, qb_obj, file_object, result, pre, fin, fout>>

\* Line 219: repo_index = RepositoryIndex.from_folder(repository_path).
Rescan(p) ==
    /\ pc[p] = "index"
    /\ repo_index' = [repo_index EXCEPT ![p] = from_folder(repo)]
    /\ pc' = [pc EXCEPT ![p] = "save"]
    /\ UNCHANGED <<repo, arg, modules, qb_obj, file_object, result, pre, fin, fout>>

\* Line 220: repo_index.to_json(index_path); package() returns.
Save(p) ==
    /\ pc[p] = "save"
    /\ repo' = [repo EXCEPT !.has_index = TRUE, !.index = repo_index[p]]
    /\ Return(p, Outcome("package", "ok", "", 0))
    /\ UNCHANGED <<arg, modules, pre, fin, fout>>

\* The interpreter dies inside package(); what it wrote stays on disk.
Crash(p) ==
    /\ pc[p] # "idle"
    /\ Return(p, Outcome("package", "crashed", "", 0))
    /\ modules' = [modules EXCEPT ![p] = FreshModules]
    /\ UNCHANGED <<repo, arg, pre, fin, fout>>

\* The interpreter exits between calls and a new one starts.
Restart(p) ==
    /\ pc[p] = "idle"
    /\ modules[p] # FreshModules
    /\ modules' = [modules EXCEPT ![p] = FreshModules]
    /\ UNCHANGED <<repo, pc, arg, qb_obj, file_object, repo_index, result, pre, fin, fout>>

\* One operation at a time against the repository (spec section 5).
Next ==
    \E p \in SeqProcs :
        \/ CallInitRepo(p)
        \/ \E name \in PackageNames : CallPackage(p, name)
        \/ Load(p)
        \/ Pack(p)
        \/ Write(p)
        \/ Rescan(p)
        \/ Save(p)
        \/ Crash(p)
        \/ Restart(p)

Spec == Init /\ [][Next]_vars

\* Two installs at once: each interpreter runs package() once (PostInstall.run),
\* nothing orders their statements.
InstallHook(p) ==
    /\ result[p].op = "none"
    /\ \E name \in PackageNames : CallPackage(p, name)

NextConc ==
    \E p \in Procs :
        \/ InstallHook(p)
        \/ Load(p)
        \/ Pack(p)
        \/ Write(p)
        \/ Rescan(p)
        \/ Save(p)

SpecConc == Init /\ [][NextConc]_vars

----------------------------------------------------------------------------
\* Properties of the repository operations

\* The artifact files the index of r lists.
IndexedFiles(r) == {Key(e.kind, e.name, e.tag) : e \in r.index}

Completed(p) == pc[p] = "idle" /\ result[p] = Outcome("package", "ok", "", 0)

Failed(p) ==
    /\ pc[p] = "idle"
    /\ result[p].op = "package"
    /\ result[p].status \in {"load failed", "packaging failed"}

\* C1: after a package() call that completed, whatever the earlier history (an
\* earlier call that died after writing its artifact included), index.json exists
\* and lists exactly the artifact files of plugins/ and recipes/: no entry without
\* a file, no file without an entry.
C1_IndexEnumeratesStores ==
    \A p \in Procs :
        Completed(p) => repo.has_index /\ IndexedFiles(repo) = DOMAIN repo.files

\* A call completed on a repository whose index an earlier, crashed call had left
\* behind the stores.
C1_Witness ==
    \E p \in Procs :
        /\ Completed(p)
        /\ pre[p].has_index
        /\ IndexedFiles(pre[p]) # DOMAIN pre[p].files
        /\ Cardinality(DOMAIN repo.files) >= 2

\* C2: after a call of _init_repo(): index.json exists, and with the content it had
\* if it existed before; plugins/ and recipes/ exist; the artifact files are the
\* same files with the same bytes; and calling it again changes nothing.
C2_InitRepoIdempotent ==
    \A p \in Procs :
        result[p].op = "_init_repo" =>
            /\ repo.exists /\ repo.has_index
            /\ repo.stores = {"plugins", "recipes"}
            /\ pre[p].has_index => repo.index = pre[p].index
            /\ repo.files = pre[p].files
            /\ _init_repo(repo) = repo

\* _init_repo() was called on a repository whose existing index.json did not list
\* what the stores hold, and on one that did not exist.
C2_Witness ==
    \E p \in Procs :
        /\ result[p].op = "_init_repo"
        /\ pre[p].has_index
        /\ pre[p].index # from_folder(pre[p])
        /\ repo.index # {}

\* C3 as claimed: a package() call that failed while loading or serializing left
\* the repository exactly as it found it.
C3_FailedPackageLeavesRepoUntouched ==
    \A p \in Procs : Failed(p) => repo = pre[p]

\* C3 as amended: a package() call that failed while loading or serializing wrote
\* no artifact file and left an existing index.json as it was; all it did to the
\* repository is what its _init_repo() call does (missing directories and a missing
\* index.json are created).
C3_FailedPackageOnlyInitsRepo ==
    \A p \in Procs :
        Failed(p) =>
            /\ repo.files = pre[p].files
            /\ pre[p].has_index => repo.index = pre[p].index
            /\ repo = _init_repo(pre[p])

\* A serialization failure on a repository that already holds artifacts.
C3_Witness ==
    \E p \in Procs :
        /\ Failed(p)
        /\ result[p].status = "packaging failed"
        /\ DOMAIN pre[p].files # {}

\* C4: two package() calls run at once behave as if one ran after the other: once
\* both have completed, index.json lists the artifacts of both.
C4_ConcurrentPackagesSerialized ==
    (\A p \in Procs : Completed(p)) => DOMAIN repo.files \subseteq IndexedFiles(repo)

\* C5 as claimed: no step removes an artifact file or changes its bytes.
C5_ArtifactsImmutable ==
    [][\A k \in DOMAIN repo.files :
          k \in DOMAIN repo'.files /\ repo'.files[k] = repo.files[k]]_vars

\* C5 as amended: no step removes an artifact file, and the only step that changes
\* a file's bytes is the write of a package() call storing a definition of the same
\* (kind, name, version), which replaces them with the new serialization.
C5_ArtifactsKeptOrRepackaged ==
    [][\A k \in DOMAIN repo.files :
          /\ k \in DOMAIN repo'.files
          /\ repo'.files[k] # repo.files[k] =>
                \E p \in Procs : /\ pc[p] = "write"
                                 /\ FilePath(p) = k
                                 /\ repo'.files[k] = file_object[p].bytes]_vars

\* package() has just overwritten an artifact with different bytes, next to another
\* artifact it left alone.
C5_Witness ==
    \E p \in Procs :
        /\ pc[p] = "index"
        /\ FilePath(p) \in DOMAIN pre[p].files
        /\ pre[p].files[FilePath(p)] # repo.files[FilePath(p)]
        /\ \E k \in DOMAIN pre[p].files : k # FilePath(p) /\ repo.files[k] = pre[p].files[k]

\* The module package_name names declares a recipe without an entry graph.
DeclaresNoEntryPoint(package_name) ==
    LET id == import_module(package_name)
    IN /\ id # ""
       /\ Installed[id].has_info
       /\ ~Installed[id].info.config
       /\ Installed[id].info.entry_point = "missing"

\* C8: loading a recipe package whose __pollination__ has no entry_point key fails
\* with the missing-entry-point error (the assertion of line 130, whose message
\* names the package).
C8_MissingEntryPointError ==
    \A p \in Procs :
        (Failed(p) /\ result[p].status = "load failed" /\ DeclaresNoEntryPoint(arg[p])) =>
            result[p].err = "AssertionError" /\ result[p].at = 130

----------------------------------------------------------------------------
\* Functions checked on their own: the inputs are drawn at Init, one step applies
\* the function.

SeqsUpTo(S, n) == UNION {[1..k -> S] : k \in 0..n}

\* _get_package_version ---------------------------------------------------

MaxComponents == 4

VersionComponents == {"0", "1", "2", "dev1"}

InitVersion ==
    /\ FreshHost
    /\ fin \in {[kind |-> "version", raw |-> v] :
                  v \in SeqsUpTo(VersionComponents, MaxComponents) \ {<<>>}}
    /\ fout = [kind |-> "none"]

ApplyGetPackageVersion ==
    /\ fin.kind = "version"
    /\ fout.kind = "none"
    /\ LET got == _get_package_version(fin.raw)
       IN fout' = [kind |-> "version", err |-> got.err, value |-> got.value]
    /\ UNCHANGED <<repo, procVars, fin>>

SpecVersion == InitVersion /\ [][ApplyGetPackageVersion]_vars

\* x.y.z or x.y.z.<more>, x, y and z integers.
IsXYZ(raw) == Len(raw) >= 3 /\ \A i \in 1..3 : IsIntLiteral(raw[i])

\* Three dot-separated non-negative integers.
IsSemantic(v) == Len(v) = 3 /\ \A i \in 1..3 : IsIntLiteral(v[i])

\* C6: the version _get_package_version makes of a raw version x.y.z or
\* x.y.z.<pre-release/dev part> is three non-negative integers: the raw version
\* itself when it has no such part, x.y.(z-1) when it has one. (The claim is stated
\* here for raw versions whose x, y and z are integers, on which it also fails.)
C6_VersionIsSemantic ==
    (fout.kind = "version" /\ IsXYZ(fin.raw)) =>
        /\ fout.err = ""
        /\ IsSemantic(fout.value)
        /\ Len(fin.raw) = 3 => fout.value = fin.raw
        /\ Len(fin.raw) > 3 =>
              fout.value = <<fin.raw[1], fin.raw[2], StrOf(IntOf(fin.raw[3]) - 1)>>

\* _load_recipe -----------------------------------------------------------

MaxDags == 2

MaxDeps == 2

DagPool == {Dag("daylight", "daylight"), Dag("post-process", "post-process")}

DepPool == {Dep(<<"alpha">>, <<"1", "2", "3">>), Dep(<<"honeybee">>, <<"latest">>)}

\* The recipe package of an input: beta with the input's entry point.
RecipeModule(in) ==
    [Installed["beta"] EXCEPT !.entry = in.entry, !.info.entry_point = in.entry_point]

InitRecipe ==
    /\ FreshHost
    /\ fin \in {[kind |-> "recipe", entry_point |-> e,
                   entry |-> [dag |-> d, dags |-> ds, plugin |-> ps, recipe |-> rs]] :
                     e \in {"dag", "missing", "falsy"}, d \in DagPool,
                     ds \in SeqsUpTo(DagPool, MaxDags),
                     ps \in SeqsUpTo(DepPool, MaxDeps), rs \in SeqsUpTo(DepPool, MaxDeps)}
    /\ fout = [kind |-> "none"]

ApplyLoadRecipe ==
    /\ fin.kind = "recipe"
    /\ fout.kind = "none"
    /\ LET got == _load_recipe(RecipeModule(fin), RecipeModule(fin).info, repo)
       IN /\ fout' = [kind |-> "recipe", err |-> got.err, at |-> got.at, obj |-> got.obj]
          /\ repo' = got.repo
    /\ UNCHANGED <<procVars, fin>>

SpecRecipe == InitRecipe /\ [][ApplyLoadRecipe]_vars

\* C7: the Recipe _load_recipe builds for a package with an entry graph has as flow
\* the entry DAG under the name "main" followed by the collected DAGs in their
\* collection order, and as dependencies one entry per collected plugin, then one
\* per collected recipe, each with the collected name and tag and the local
\* repository's URI as source.
C7_RecipeFlowAndDependencies ==
    (fout.kind = "recipe" /\ fin.entry_point = "dag") =>
        LET e == fin.entry
            flow == fout.obj.flow
            deps == fout.obj.dependencies
            np == Len(e.plugin)
        IN /\ fout.err = ""
           /\ fout.obj.type = "recipe"
           /\ Len(flow) = 1 + Len(e.dags)
           /\ flow[1] = Dag("main", e.dag.body)
           /\ \A i \in 1..Len(e.dags) : flow[i + 1] = e.dags[i]
           /\ Len(deps) = np + Len(e.recipe)
           /\ \A i \in 1..np :
                 deps[i] = Dependency("plugin", e.plugin[i].name, e.plugin[i].tag, RepoURI)
           /\ \A i \in 1..Len(e.recipe) :
                 deps[np + i] = Dependency("recipe", e.recipe[i].name, e.recipe[i].tag, RepoURI)

\* A recipe was built from two different nested DAGs, plugin and recipe dependencies.
C7_Witness ==
    /\ fout.kind = "recipe"
    /\ fout.err = ""
    /\ Len(fin.entry.dags) = 2 /\ fin.entry.dags[1] # fin.entry.dags[2]
    /\ fin.entry.plugin # <<>> /\ fin.entry.recipe # <<>>
    /\ fin.entry.plugin # fin.entry.recipe
    /\ Len(fout.obj.flow) = 3

\* _load_plugin ------------------------------------------------------------

MaxSubmodules == 2

MaxAttrs == 2

AttrPool ==
    {Attr("function", "Function"), Attr("function", "read"), Attr("function", "write"),
     Attr("", "os")}

PluginModule(in) == [Installed["alpha"] EXCEPT !.submodules = in.submodules]

InitPlugin ==
    /\ FreshHost
    /\ fin \in {[kind |-> "plugin", submodules |-> subs] :
                     subs \in SeqsUpTo(SeqsUpTo(AttrPool, MaxAttrs), MaxSubmodules)}
    /\ fout = [kind |-> "none"]

ApplyLoadPlugin ==
    /\ fin.kind = "plugin"
    /\ fout.kind = "none"
    /\ LET got == _load_plugin(PluginModule(fin), PluginModule(fin).info, repo)
       IN /\ fout' = [kind |-> "plugin", err |-> got.err, at |-> got.at, obj |-> got.obj]
          /\ repo' = got.repo
    /\ UNCHANGED <<procVars, fin>>

SpecPlugin == InitPlugin /\ [][ApplyLoadPlugin]_vars

Distinct(seq) == \A i, j \in 1..Len(seq) : i # j => seq[i] # seq[j]

\* C10: _load_plugin fails with DuplicateFunctionNameError when two of the function
\* templates it gathers share a name, so the Plugin it returns has pairwise distinct
\* function names, also when a template is an attribute of several submodules.
C10_PluginFunctionNamesUnique ==
    fout.kind = "plugin" =>
        /\ ~Distinct(CollectFunctions(fin.submodules)) =>
              fout.err = "DuplicateFunctionNameError"
        /\ fout.err = "" => Distinct(fout.obj.functions)

\* get_docker_image_from_dependency -----------------------------------------

MaxReqs == 2

ReqNames == {"honeybee-radiance", "ladybug"}

\* str(package.specifier) of a requires.txt line: none, a pin, a lower bound.
Specifiers == {<<>>, <<"=", "=", "0.5.2">>, <<">", "=", "0.5.2">>}

\* What follows ' (' in a Requires-Dist line.
Rests == {<<"=", "=", "0.5.2", ")">>, <<">", "=", "0.5.2", ")">>}

TxtPool == {[name |-> n, specifier |-> sp] : n \in ReqNames, sp \in Specifiers}

\* A Requires-Dist line: "name" alone, or "name (<specifier>)".
DistPool == {[name |-> n, rest |-> r] : n \in ReqNames, r \in {<<>>} \cup {<<x>> : x \in Rests}}

\* The package's requirements: a requires.txt, or only Requires-Dist metadata.
Environments(txts, dists) ==
    {[has_requires_txt |-> TRUE, requires_txt |-> t, requires_dist |-> <<>>] : t \in txts}
    \cup
    {[has_requires_txt |-> FALSE, requires_txt |-> <<>>, requires_dist |-> r] : r \in dists}

InitDocker ==
    /\ FreshHost
    /\ fin \in {[kind |-> "docker", dependency |-> d, env |-> env] :
                     d \in {"honeybee-radiance", "honeybee_radiance"},
                     env \in Environments(SeqsUpTo(TxtPool, MaxReqs),
                                          SeqsUpTo(DistPool, MaxReqs))}
    /\ fout = [kind |-> "none"]

ApplyGetDockerImage ==
    /\ fin.kind = "docker"
    /\ fout.kind = "none"
    /\ LET got == get_docker_image_from_dependency(fin.env, fin.dependency)
       IN fout' = [kind |-> "docker", err |-> got.err, image |-> got.image,
                   warned |-> got.warned]
    /\ UNCHANGED <<repo, procVars, fin>>

SpecDocker == InitDocker /\ [][ApplyGetDockerImage]_vars

\* The requirement lines of the package that name the dependency, as
\* [name, spec]: spec is what the line says after the name.
ListedFor(env, dependency) ==
    LET lines == IF env.has_requires_txt
                 THEN [i \in 1..Len(env.requires_txt) |->
                         [name |-> env.requires_txt[i].name,
                          spec |-> env.requires_txt[i].specifier]]
                 ELSE [i \in 1..Len(env.requires_dist) |->
                         [name |-> env.requires_dist[i].name,
                          spec |-> IF env.requires_dist[i].rest = <<>> THEN <<>>
                                   ELSE env.requires_dist[i].rest[1]]]
    IN SelectSeq(lines, LAMBDA l : l.name = Dashed(dependency))

\* The version a requirement line gives: its spec without operators and brackets.
VersionIn(spec) == Without(spec, {"=", ">", "<", ")"})

\* C9: get_docker_image_from_dependency never raises; when the package's
\* requirements give no version for the dependency (no requirements, the dependency
\* not listed, or listed without a version) it warns and returns the image with the
\* tag "latest"; when they give one it returns the image with that version.
C9_DockerImageFallsBackToLatest ==
    fout.kind = "docker" =>
        LET listed == ListedFor(fin.env, fin.dependency)
            pinned == IF listed = <<>> THEN <<>> ELSE VersionIn(listed[Len(listed)].spec)
        IN /\ fout.err = ""
           /\ fout.image.name = fin.dependency
           /\ pinned = <<>> => fout.warned /\ fout.image.tag = <<"latest">>
           /\ pinned # <<>> => fout.image.tag = pinned

----------------------------------------------------------------------------
\* load() called again in the same interpreter

\* _BaseClass._package of a Function or DAG of module m: the package data copied
\* into the module's __pollination__, every key overwritten: [err, qb_info].
_package(m, qb_info) ==
    LET data == _get_package_data(m)
    IN IF data.err # ""
       THEN [err |-> data.err, qb_info |-> qb_info]
       ELSE [err |-> "", qb_info |-> [qb_info EXCEPT !.name = data.name, !.tag = data.tag]]

\* load(package_name) called by itself, as package() (line 197) and translate()
\* (line 244) call it; the caller keeps what it returns.
CallLoad(p, package_name) ==
    /\ pc[p] = "idle"
    /\ LET got == load(package_name, modules[p], repo)
       IN /\ repo' = got.repo
          /\ modules' = [modules EXCEPT ![p] = got.mods]
          /\ qb_obj' = [qb_obj EXCEPT ![p] = got.obj]
          /\ result' = [result EXCEPT ![p] =
                Outcome("load", IF got.err = "" THEN "ok" ELSE "load failed", got.err, got.at)]
    /\ arg' = [arg EXCEPT ![p] = package_name]
    /\ pre' = [pre EXCEPT ![p] = repo]
    /\ UNCHANGED <<pc, file_object, repo_index, fin, fout>>

\* An object of module id (a Function or DAG instance) reads its _package property.
ReadPackage(p, id) ==
    /\ pc[p] = "idle"
    /\ Installed[id].has_info
    /\ LET got == _package(Installed[id], modules[p][id])
       IN /\ got.qb_info # modules[p][id]
          /\ modules' = [modules EXCEPT ![p][id] = got.qb_info]
    /\ UNCHANGED <<repo, pc, arg, qb_obj, file_object, repo_index, result, pre, fin, fout>>

NextLoad ==
    \E p \in SeqProcs :
        \/ \E name \in PackageNames : CallLoad(p, name)
        \/ \E id \in ModuleIds : ReadPackage(p, id)
        \/ Restart(p)

SpecLoad == Init /\ [][NextLoad]_vars

\* C11: after a load() that returned a definition, loading the same package again
\* in the same interpreter leaves the package's __pollination__ as it is, takes the
\* same plugin/recipe branch and returns a definition of the same kind with the
\* same metadata.
C11_LoadRepeatable ==
    \A p \in Procs :
        (result[p].op = "load" /\ result[p].status = "ok") =>
            LET again == load(arg[p], modules[p], repo)
            IN /\ again.mods = modules[p]
               /\ again.err = ""
               /\ again.obj.type = qb_obj[p].type
               /\ again.obj.metadata = qb_obj[p].metadata

====
